---- MODULE Spec2Model ----
(***************************************************************************)
(* The interactive shell of equasis-cli (src/equasis_cli/interactive.py):  *)
(* the input line and its overlays, the command history, the transcript,   *)
(* and the background pipeline (process_async, animate, _process_command   *)
(* on an executor thread) that Enter starts.                               *)
(*                                                                         *)
(* Texts are sequences of one-character strings, so that split, strip,     *)
(* count, rfind and the substring filter are computed as Python does.      *)
(***************************************************************************)
EXTENDS Integers, Sequences, FiniteSets, TLC

VARIABLES
  text,              \* input_buffer.text
  cursor,            \* input_buffer.cursor_position
  focus,             \* "input" | "output": which buffer the layout focuses
  show_help_menu,
  show_slash_menu,
  slash_menu_index,
  history,           \* InMemoryHistory strings, oldest first
  history_index,     \* self._history_index, NoIndex while the attribute is unset
  last_operation,
  app_running,       \* FALSE once app.exit() was called
  exited,            \* TRUE once the interpreter has exited
  read_only,         \* output_buffer.read_only()
  pending,           \* per task: the _append_output its thread is inside
  keys,              \* number of key events handled so far
  output_buffer,     \* the transcript: the sequence of appended blocks
  is_loading,
  loading_message,
  loading_detail,
  spinner_frame,
  shine_offset,
  output_format,
  client,            \* "none" | "created": self.client
  logged_in,
  sys_stdout,        \* 0: the process's own streams; t: the capture pair of dispatch t
  captured,          \* captured[t]: what was printed into dispatch t's StringIO pair
  terminal,          \* prints that reached the process's own stdout/stderr
  nsub,              \* number of background tasks created so far
  cmd,               \* cmd[t]: command_text closed over by process_async t
  ppc,               \* position of process_async t
  apc,               \* position of animate() of task t
  wpc,               \* position of _process_command t on the executor thread
  old_stdout,        \* old_stdout/old_stderr local of dispatch t
  animation_counter, \* animation_counter of process_async t
  raised,            \* raised[t]: an exception is propagating out of dispatch t
  environ,           \* os.environ: EQUASIS_USERNAME, EQUASIS_PASSWORD
  credentials_file,  \* what is at config_dir / "credentials.json"
  credentials,       \* the get_credentials calls made: arguments and returned pair
  retry_pc,          \* position of with_retry's wrapper
  attempt,           \* attempt of the wrapper's for loop
  calls,             \* what each invocation of the wrapped function did, in order
  last_exception,    \* last_exception local of the wrapper
  retry_out,         \* what the wrapper returned or raised
  batch_pc,          \* position of search_vessels_by_imo_batch
  imos,              \* the imos argument
  stop_on_error,     \* the stop_on_error argument
  batch_idx,         \* idx of the batch's for loop
  results,           \* results local, and the list returned
  progress           \* the progress_callback calls made, in order

uiVars   == <<text, cursor, focus, show_help_menu, show_slash_menu, slash_menu_index,
             history, history_index, keys>>
loadVars == <<is_loading, loading_message, loading_detail, spinner_frame, shine_offset>>
sessVars == <<output_format, client, logged_in>>
capVars  == <<sys_stdout, captured, terminal, old_stdout>>
taskVars == <<nsub, cmd, ppc, apc, wpc, animation_counter, raised>>
credVars  == <<environ, credentials_file, credentials>>
retryVars == <<retry_pc, attempt, calls, last_exception, retry_out>>
batchVars == <<batch_pc, imos, stop_on_error, batch_idx, results, progress>>
libVars   == <<credVars, retryVars, batchVars>>
shellVars == <<uiVars, last_operation, app_running, exited, read_only, pending, output_buffer,
               loadVars, sessVars, capVars, taskVars>>
vars     == <<shellVars, libVars>>

----------------------------------------------------------------------------
(* Bounds of the model.                                                    *)
MaxCmds  == 2    \* submissions that start a background task
MaxKeys  == 6    \* key events of a session
MaxPipelineKeys == 4  \* key events (pastes and Enters) of a pipeline session
MaxTicks == 2    \* animation ticks of one task
MaxLineKeys == 3  \* key events of a session of submitted lines
MaxOverlayKeys == 4  \* key events of a short session at the overlay
MaxAppendKeys == 4  \* key events of a session of unknown commands
MaxImos == 3  \* items of a batch

Tasks   == 1..MaxCmds
NoIndex == -1

\* Python's None
None == "None"

----------------------------------------------------------------------------
(* Python string operations on sequences of characters.                    *)

IsSpace(c) == c = " "

LowerChar(c) ==
  CASE c = "V" -> "v"
    [] c = "M" -> "m"
    [] c = "I" -> "i"
    [] OTHER   -> c

\* str.lower()
Lower(s) == [k \in 1..Len(s) |-> LowerChar(s[k])]

\* str.count(ch) for a single character
Count(s, ch) == Cardinality({k \in 1..Len(s) : s[k] = ch})

\* str.startswith(p)
StartsWith(s, p) == Len(p) <= Len(s) /\ SubSeq(s, 1, Len(p)) = p

\* `sub in s`
Contains(s, sub) ==
  \E k \in 0..(Len(s) - Len(sub)) : SubSeq(s, k + 1, k + Len(sub)) = sub

\* str.rfind(ch) as a 1-based position, 0 when absent (Python: -1)
RFind(s, ch) ==
  IF \E k \in 1..Len(s) : s[k] = ch
    THEN CHOOSE k \in 1..Len(s) : s[k] = ch /\ \A j \in (k + 1)..Len(s) : s[j] # ch
    ELSE 0

\* str.strip()
RECURSIVE LStrip(_)
LStrip(s) == IF s # <<>> /\ IsSpace(Head(s)) THEN LStrip(Tail(s)) ELSE s
RECURSIVE RStrip(_)
RStrip(s) ==
  IF s # <<>> /\ IsSpace(s[Len(s)]) THEN RStrip(SubSeq(s, 1, Len(s) - 1)) ELSE s
Strip(s) == LStrip(RStrip(s))

\* str.split(): the whitespace-delimited tokens, in order
RECURSIVE SplitFrom(_, _, _)
SplitFrom(s, cur, acc) ==
  IF s = <<>>
    THEN IF cur = <<>> THEN acc ELSE Append(acc, cur)
    ELSE IF IsSpace(Head(s))
      THEN SplitFrom(Tail(s), <<>>, IF cur = <<>> THEN acc ELSE Append(acc, cur))
      ELSE SplitFrom(Tail(s), Append(cur, Head(s)), acc)
Split(s) == SplitFrom(s, <<>>, <<>>)

\* [x for x in items if pred], keeping the order
RECURSIVE FilterBy(_, _)
FilterBy(items, sub) ==
  IF items = <<>> THEN <<>>
  ELSE IF Contains(Lower(Head(items)), sub)
    THEN <<Head(items)>> \o FilterBy(Tail(items), sub)
    ELSE FilterBy(Tail(items), sub)

----------------------------------------------------------------------------
(* The words of the command language.                                      *)
W_vessel  == <<"v","e","s","s","e","l">>
W_search  == <<"s","e","a","r","c","h">>
W_fleet   == <<"f","l","e","e","t">>
W_batch   == <<"b","a","t","c","h">>
W_format  == <<"f","o","r","m","a","t">>
W_status  == <<"s","t","a","t","u","s">>
W_clear   == <<"c","l","e","a","r">>
W_help    == <<"h","e","l","p">>
W_exit    == <<"e","x","i","t">>
W_quit    == <<"q","u","i","t">>
W_imo     == <<"i","m","o">>
W_output  == <<"o","u","t","p","u","t">>
W_name    == <<"n","a","m","e">>
W_company == <<"c","o","m","p","a","n","y">>
W_imos    == <<"i","m","o","s">>
W_file    == <<"f","i","l","e">>
W_companies    == <<"c","o","m","p","a","n","i","e","s">>
W_company_file == <<"c","o","m","p","a","n","y","-","f","i","l","e">>

\* all_commands of _get_filtered_commands (names only), in registered order
all_commands ==
  <<W_vessel, W_search, W_fleet, W_batch, W_format, W_status, W_clear, W_help, W_exit>>

\* params of _get_filtered_commands for the first token
ParamsFor(first_part) ==
  CASE first_part = W_vessel -> <<W_imo, W_format, W_output>>
    [] first_part = W_search -> <<W_name, W_imo, W_format, W_output>>
    [] first_part = W_fleet  -> <<W_company, W_format, W_output>>
    [] first_part = W_batch  ->
         <<W_imos, W_file, W_companies, W_company_file, W_format, W_output>>
    [] OTHER -> <<W_format, W_output>>

\* a _get_filtered_commands that scrolls the unfiltered command list by the
\* selection
FilteredCommands_Scrolled(buffer_text) ==
  LET parts == Split(buffer_text)
      scrolled == SubSeq(all_commands, (IF slash_menu_index > 0 THEN 2 ELSE 1), Len(all_commands)) IN
  IF Len(parts) <= 1 \/ Count(buffer_text, "/") = 0
    THEN IF StartsWith(buffer_text, <<"/">>)
           THEN LET filter_text == Lower(Tail(buffer_text)) IN
                IF filter_text # <<>> THEN FilterBy(all_commands, filter_text)
                                      ELSE scrolled
           ELSE scrolled
    ELSE LET params == ParamsFor(Lower(parts[1]))
             last_slash_pos == RFind(buffer_text, "/") IN
         IF last_slash_pos >= 1
           THEN LET filter_text ==
                      Lower(SubSeq(buffer_text, last_slash_pos + 1, Len(buffer_text))) IN
                IF filter_text # <<>> THEN FilterBy(params, filter_text) ELSE params
           ELSE params

\* _get_filtered_commands on a buffer text
FilteredCommands(buffer_text) ==
  LET parts == Split(buffer_text) IN
  IF Len(parts) <= 1 \/ Count(buffer_text, "/") = 0
    THEN IF StartsWith(buffer_text, <<"/">>)
           THEN LET filter_text == Lower(Tail(buffer_text)) IN
                IF filter_text # <<>> THEN FilterBy(all_commands, filter_text)
                                      ELSE all_commands
           ELSE all_commands
    ELSE LET params == ParamsFor(Lower(parts[1]))
             last_slash_pos == RFind(buffer_text, "/") IN
         IF last_slash_pos >= 1
           THEN LET filter_text ==
                      Lower(SubSeq(buffer_text, last_slash_pos + 1, Len(buffer_text))) IN
                IF filter_text # <<>> THEN FilterBy(params, filter_text) ELSE params
           ELSE params

----------------------------------------------------------------------------
(* The transcript.  A block is what one _append_output call adds (the text *)
(* and its trailing newline); `of` is the background task it belongs to    *)
(* (0: none) and `txt` the echoed command of an echo block.                *)
Block(kind, t, txt) == [kind |-> kind, of |-> t, txt |-> txt]

\* _append_output: current + text + '\n'
AppendOutput(buf, block) == Append(buf, block)

\* Buffer.insert_text of one character at the cursor
InsertAt(s, pos, c) == SubSeq(s, 1, pos) \o <<c>> \o SubSeq(s, pos + 1, Len(s))

\* Buffer.delete_before_cursor(count=1)
DeleteBefore(s, pos) ==
  IF pos > 0 THEN SubSeq(s, 1, pos - 1) \o SubSeq(s, pos + 1, Len(s)) ELSE s

Max(a, b) == IF a >= b THEN a ELSE b
Min(a, b) == IF a <= b THEN a ELSE b

\* the characters typed through the default self-insert binding
Chars == {"v", "m"}

\* is_primary of the tab handler and of _create_slash_menu_content
IsPrimary(buffer_text) ==
  LET slash_count == Count(buffer_text, "/") IN
  slash_count = 0 \/ (slash_count = 1 /\ StartsWith(buffer_text, <<"/">>))

----------------------------------------------------------------------------
(* Initial state: InteractiveShell.__init__, then start() appends the      *)
(* banner.                                                                 *)
InitTexts == {<<>>}

InitShell ==
  /\ text \in InitTexts
  /\ cursor = Len(text)
  /\ focus = "input"
  /\ show_help_menu = FALSE
  /\ show_slash_menu = FALSE
  /\ slash_menu_index = 0
  /\ history = <<>>
  /\ history_index = NoIndex
  /\ last_operation = ""
  /\ app_running = TRUE
  /\ exited = FALSE
  /\ read_only = TRUE
  /\ pending = [t \in Tasks |-> <<>>]
  /\ keys = 0
  /\ output_buffer = <<Block("banner", 0, <<>>)>>
  /\ is_loading = FALSE
  /\ loading_message = ""
  /\ loading_detail = ""
  /\ spinner_frame = 0
  /\ shine_offset = 0
  /\ output_format = "table"
  /\ client = "none"
  /\ logged_in = FALSE
  /\ sys_stdout = 0
  /\ captured = [t \in Tasks |-> [out |-> <<>>, err |-> <<>>]]
  /\ terminal = {}
  /\ nsub = 0
  /\ cmd = [t \in Tasks |-> <<>>]
  /\ ppc = [t \in Tasks |-> "none"]
  /\ apc = [t \in Tasks |-> "none"]
  /\ wpc = [t \in Tasks |-> "none"]
  /\ old_stdout = [t \in Tasks |-> 0]
  /\ animation_counter = [t \in Tasks |-> 0]
  /\ raised = [t \in Tasks |-> FALSE]

\* a local that holds no exception or result yet
Unset == [raises |-> None, status_code |-> -1]

\* the library components before any of them is called
InitCredentials ==
  /\ environ = [username |-> None, password |-> None]
  /\ credentials_file = "absent"
  /\ credentials = <<>>

InitRetry ==
  /\ retry_pc = "idle"
  /\ attempt = 0
  /\ calls = <<>>
  /\ last_exception = Unset
  /\ retry_out = Unset

InitBatch ==
  /\ batch_pc = "idle"
  /\ imos = <<>>
  /\ stop_on_error = FALSE
  /\ batch_idx = 0
  /\ results = <<>>
  /\ progress = <<>>

Init == InitShell /\ InitCredentials /\ InitRetry /\ InitBatch

----------------------------------------------------------------------------
(* Key bindings (_setup_key_bindings).  Each handler runs to completion on *)
(* the event-loop thread.                                                  *)

\* a key event is delivered to the running application
KeyPressed ==
  /\ app_running
  /\ keys < MaxKeys
  /\ keys' = keys + 1

\* default self-insert binding of prompt_toolkit for a printable character:
\* inserts into the focused buffer; the output buffer is read-only
KeyChar(c) ==
  /\ KeyPressed
  /\ IF focus = "input"
       THEN /\ text' = InsertAt(text, cursor, c)
            /\ cursor' = cursor + 1
       ELSE UNCHANGED <<text, cursor>>
  /\ UNCHANGED <<focus, show_help_menu, show_slash_menu, slash_menu_index, history,
                 history_index, last_operation, app_running, exited, read_only, pending, libVars, output_buffer, loadVars,
                 sessVars, capVars, taskVars>>

\* 'i'
KeyI ==
  /\ KeyPressed
  /\ IF focus = "output"
       THEN /\ focus' = "input"
            /\ last_operation' = ""
            /\ UNCHANGED <<text, cursor>>
       ELSE /\ text' = InsertAt(text, cursor, "i")
            /\ cursor' = cursor + 1
            /\ UNCHANGED <<focus, last_operation>>
  /\ UNCHANGED <<show_help_menu, show_slash_menu, slash_menu_index, history,
                 history_index, app_running, exited, read_only, pending, libVars, output_buffer, loadVars, sessVars,
                 capVars, taskVars>>

\* KeySlash with a handler that toggles the slash menu instead of opening it
KeySlash_Toggles ==
  /\ KeyPressed
  /\ text' = InsertAt(text, cursor, "/")
  /\ cursor' = cursor + 1
  /\ show_slash_menu' = ~show_slash_menu
  /\ show_help_menu' = FALSE
  /\ slash_menu_index' = 0
  /\ UNCHANGED <<focus, history, history_index, last_operation, app_running, exited, read_only, pending, libVars,
                 output_buffer, loadVars, sessVars, capVars, taskVars>>

\* '/'
KeySlash ==
  /\ KeyPressed
  /\ text' = InsertAt(text, cursor, "/")
  /\ cursor' = cursor + 1
  /\ show_slash_menu' = TRUE
  /\ show_help_menu' = FALSE
  /\ slash_menu_index' = 0
  /\ UNCHANGED <<focus, history, history_index, last_operation, app_running, exited, read_only, pending, libVars,
                 output_buffer, loadVars, sessVars, capVars, taskVars>>

\* a '?' that leaves the slash menu as it is
KeyQuestion_KeepsSlash ==
  /\ KeyPressed
  /\ show_help_menu' = ~show_help_menu
  /\ UNCHANGED <<text, cursor, focus, show_slash_menu, slash_menu_index, history,
                 history_index, last_operation, app_running, exited, read_only, pending, libVars, output_buffer, loadVars,
                 sessVars, capVars, taskVars>>

\* '?'
KeyQuestion ==
  /\ KeyPressed
  /\ show_help_menu' = ~show_help_menu
  /\ show_slash_menu' = FALSE
  /\ UNCHANGED <<text, cursor, focus, slash_menu_index, history, history_index,
                 last_operation, app_running, exited, read_only, pending, libVars, output_buffer, loadVars, sessVars,
                 capVars, taskVars>>

\* KeyBackspace with a handler that keeps the selection while the text still
\* starts with '/'
KeyBackspace_KeepsIndex ==
  /\ KeyPressed
  /\ IF focus = "input"
       THEN /\ text' = DeleteBefore(text, cursor)
            /\ cursor' = Max(0, cursor - 1)
            /\ IF ~StartsWith(text', <<"/">>)
                 THEN show_slash_menu' = FALSE /\ slash_menu_index' = 0
                 ELSE UNCHANGED <<show_slash_menu, slash_menu_index>>
       ELSE \/ /\ output_buffer # <<>>
               /\ UNCHANGED <<text, cursor, show_slash_menu, slash_menu_index>>
            \/ /\ show_slash_menu' = FALSE
               /\ slash_menu_index' = 0
               /\ UNCHANGED <<text, cursor>>
  /\ UNCHANGED <<focus, show_help_menu, history, history_index, last_operation,
                 app_running, exited, read_only, pending, libVars, output_buffer, loadVars, sessVars, capVars, taskVars>>

\* 'backspace': current_buffer is the focused buffer.  Deleting in the read-only
\* output buffer raises EditReadOnlyBuffer, which ends the handler; with that
\* buffer's cursor at position 0 (scrolled to the top, or the buffer empty)
\* nothing is deleted and the handler goes on to test the output text
KeyBackspace ==
  /\ KeyPressed
  /\ IF focus = "input"
       THEN /\ text' = DeleteBefore(text, cursor)
            /\ cursor' = Max(0, cursor - 1)
            /\ IF ~StartsWith(text', <<"/">>)
                 THEN show_slash_menu' = FALSE /\ slash_menu_index' = 0
                 ELSE slash_menu_index' = 0 /\ UNCHANGED show_slash_menu
       ELSE \/ /\ output_buffer # <<>>
               /\ UNCHANGED <<text, cursor, show_slash_menu, slash_menu_index>>
            \/ /\ show_slash_menu' = FALSE
               /\ slash_menu_index' = 0
               /\ UNCHANGED <<text, cursor>>
  /\ UNCHANGED <<focus, show_help_menu, history, history_index, last_operation,
                 app_running, exited, read_only, pending, libVars, output_buffer, loadVars, sessVars, capVars, taskVars>>

\* 'tab'
KeyTab ==
  /\ KeyPressed
  /\ IF show_slash_menu
       THEN LET filtered_commands == FilteredCommands(text) IN
            /\ IF filtered_commands # <<>> /\ slash_menu_index < Len(filtered_commands)
                 THEN LET selected == filtered_commands[slash_menu_index + 1]
                          last_slash_pos == RFind(text, "/") IN
                      IF IsPrimary(text)
                        THEN /\ text' = selected \o <<" ">>
                             /\ cursor' = Len(text')
                        ELSE IF last_slash_pos >= 1
                          THEN /\ text' = SubSeq(text, 1, last_slash_pos - 1)
                                          \o <<"/">> \o selected \o <<" ">>
                               /\ cursor' = Len(text')
                          ELSE UNCHANGED <<text, cursor>>
                 ELSE UNCHANGED <<text, cursor>>
            /\ show_slash_menu' = FALSE
            /\ slash_menu_index' = 0
       ELSE UNCHANGED <<text, cursor, show_slash_menu, slash_menu_index>>
  /\ UNCHANGED <<focus, show_help_menu, history, history_index, last_operation,
                 app_running, exited, read_only, pending, libVars, output_buffer, loadVars, sessVars, capVars, taskVars>>

\* 'up'
KeyUp ==
  /\ KeyPressed
  /\ IF focus = "output"
       THEN UNCHANGED <<text, cursor, slash_menu_index, history_index>>
       ELSE IF show_slash_menu
         THEN /\ slash_menu_index' =
                   IF FilteredCommands(text) # <<>>
                     THEN Max(0, slash_menu_index - 1) ELSE slash_menu_index
              /\ UNCHANGED <<text, cursor, history_index>>
         ELSE IF history # <<>>
           THEN LET cur == IF history_index = NoIndex THEN Len(history)
                                                      ELSE history_index
                    idx == Max(0, cur - 1) IN
                /\ history_index' = idx
                /\ IF idx < Len(history)
                     THEN text' = history[idx + 1] /\ cursor' = Len(text')
                     ELSE UNCHANGED <<text, cursor>>
                /\ UNCHANGED slash_menu_index
           ELSE UNCHANGED <<text, cursor, slash_menu_index, history_index>>
  /\ UNCHANGED <<focus, show_help_menu, show_slash_menu, history, last_operation,
                 app_running, exited, read_only, pending, libVars, output_buffer, loadVars, sessVars, capVars, taskVars>>

\* KeyDown with a handler that steps history_index without the cap at len(history)
KeyDown_Uncapped ==
  /\ KeyPressed
  /\ IF focus = "output"
       THEN UNCHANGED <<text, cursor, slash_menu_index, history_index>>
       ELSE IF show_slash_menu
         THEN /\ slash_menu_index' =
                   IF FilteredCommands(text) # <<>>
                     THEN Min(Len(FilteredCommands(text)) - 1, slash_menu_index + 1)
                     ELSE slash_menu_index
              /\ UNCHANGED <<text, cursor, history_index>>
         ELSE IF history # <<>> /\ history_index # NoIndex
           THEN LET idx == history_index + 1 IN
                /\ history_index' = idx
                /\ IF idx < Len(history)
                     THEN text' = history[idx + 1] /\ cursor' = Len(text')
                     ELSE text' = <<>> /\ cursor' = 0
                /\ UNCHANGED slash_menu_index
           ELSE UNCHANGED <<text, cursor, slash_menu_index, history_index>>
  /\ UNCHANGED <<focus, show_help_menu, show_slash_menu, history, last_operation,
                 app_running, exited, read_only, pending, libVars, output_buffer, loadVars, sessVars, capVars, taskVars>>

\* 'down'
KeyDown ==
  /\ KeyPressed
  /\ IF focus = "output"
       THEN UNCHANGED <<text, cursor, slash_menu_index, history_index>>
       ELSE IF show_slash_menu
         THEN /\ slash_menu_index' =
                   IF FilteredCommands(text) # <<>>
                     THEN Min(Len(FilteredCommands(text)) - 1, slash_menu_index + 1)
                     ELSE slash_menu_index
              /\ UNCHANGED <<text, cursor, history_index>>
         ELSE IF history # <<>> /\ history_index # NoIndex
           THEN LET idx == Min(Len(history), history_index + 1) IN
                /\ history_index' = idx
                /\ IF idx < Len(history)
                     THEN text' = history[idx + 1] /\ cursor' = Len(text')
                     ELSE text' = <<>> /\ cursor' = 0
                /\ UNCHANGED slash_menu_index
           ELSE UNCHANGED <<text, cursor, slash_menu_index, history_index>>
  /\ UNCHANGED <<focus, show_help_menu, show_slash_menu, history, last_operation,
                 app_running, exited, read_only, pending, libVars, output_buffer, loadVars, sessVars, capVars, taskVars>>

\* KeyEscape with a handler that enters scroll mode whatever overlay is open
KeyEscape_Always ==
  /\ KeyPressed
  /\ focus' = "output"
  /\ last_operation' = "Scroll mode"
  /\ UNCHANGED <<text, cursor, show_help_menu, show_slash_menu, slash_menu_index,
                 history, history_index, app_running, exited, read_only, pending, libVars, output_buffer, loadVars,
                 sessVars, capVars, taskVars>>

\* 'escape'
KeyEscape ==
  /\ KeyPressed
  /\ IF ~show_help_menu /\ ~show_slash_menu
       THEN focus' = "output" /\ last_operation' = "Scroll mode"
       ELSE UNCHANGED <<focus, last_operation>>
  /\ UNCHANGED <<text, cursor, show_help_menu, show_slash_menu, slash_menu_index,
                 history, history_index, app_running, exited, read_only, pending, libVars, output_buffer, loadVars,
                 sessVars, capVars, taskVars>>

\* a 'c-c' that also stops the loading indicator
KeyCtrlC_Cancels ==
  /\ KeyPressed
  /\ text' = <<>>
  /\ cursor' = 0
  /\ show_help_menu' = FALSE
  /\ show_slash_menu' = FALSE
  /\ is_loading' = FALSE
  /\ UNCHANGED <<focus, slash_menu_index, history, history_index, last_operation,
                 app_running, exited, read_only, pending, libVars, output_buffer, loading_message, loading_detail,
                 spinner_frame, shine_offset, sessVars, capVars, taskVars>>

\* 'c-c'
KeyCtrlC ==
  /\ KeyPressed
  /\ text' = <<>>
  /\ cursor' = 0
  /\ show_help_menu' = FALSE
  /\ show_slash_menu' = FALSE
  /\ UNCHANGED <<focus, slash_menu_index, history, history_index, last_operation,
                 app_running, exited, read_only, pending, libVars, output_buffer, loadVars, sessVars, capVars, taskVars>>

\* 'c-d'
KeyCtrlD ==
  /\ KeyPressed
  /\ app_running' = FALSE /\ UNCHANGED <<exited, read_only, pending, libVars>>
  /\ UNCHANGED <<text, cursor, focus, show_help_menu, show_slash_menu, slash_menu_index,
                 history, history_index, last_operation, output_buffer, loadVars, sessVars, capVars,
                 taskVars>>

\* ProcessInput without the reset of self._history_index (line 765)
ProcessInput_KeepsIndex ==
  LET command_text == Strip(text) IN
  IF command_text = <<>>
    THEN UNCHANGED <<text, cursor, history, history_index, output_buffer, app_running, exited, read_only, pending, libVars,
                     taskVars>>
    ELSE /\ Len(history) < MaxCmds
         /\ history' = Append(history, command_text)
         /\ UNCHANGED history_index
         /\ text' = <<>>
         /\ cursor' = 0
         /\ read_only' = TRUE       \* every _append_output, and clear, ends so
         /\ UNCHANGED <<pending, libVars>>
         /\ IF command_text = W_exit \/ command_text = W_quit
              THEN /\ output_buffer' =
                        AppendOutput(output_buffer, Block("echo", 0, command_text))
                   /\ app_running' = FALSE /\ UNCHANGED exited
                   /\ UNCHANGED taskVars
              ELSE IF command_text = W_clear
                THEN /\ output_buffer' = <<>>
                     /\ UNCHANGED <<app_running, exited, taskVars>>
                ELSE /\ output_buffer' =
                          AppendOutput(output_buffer, Block("echo", nsub + 1, command_text))
                     /\ nsub' = nsub + 1
                     /\ cmd' = [cmd EXCEPT ![nsub + 1] = command_text]
                     /\ ppc' = [ppc EXCEPT ![nsub + 1] = "start"]
                     /\ UNCHANGED <<app_running, exited, apc, wpc, animation_counter, raised>>

\* a _process_input that takes the line as it is, whitespace and all
ProcessInput_NoStrip ==
  LET command_text == text IN
  IF command_text = <<>>
    THEN UNCHANGED <<text, cursor, history, history_index, output_buffer, app_running, exited, read_only, pending, libVars,
                     taskVars>>
    ELSE /\ Len(history) < MaxCmds
         /\ history' = Append(history, command_text)
         /\ history_index' = Len(history')
         /\ text' = <<>>
         /\ cursor' = 0
         /\ read_only' = TRUE       \* every _append_output, and clear, ends so
         /\ UNCHANGED <<pending, libVars>>
         /\ IF command_text = W_exit \/ command_text = W_quit
              THEN /\ output_buffer' =
                        AppendOutput(output_buffer, Block("echo", 0, command_text))
                   /\ app_running' = FALSE /\ UNCHANGED exited
                   /\ UNCHANGED taskVars
              ELSE IF command_text = W_clear
                THEN /\ output_buffer' = <<>>
                     /\ UNCHANGED <<app_running, exited, taskVars>>
                ELSE \* app.create_background_task(process_async())
                     /\ output_buffer' =
                          AppendOutput(output_buffer, Block("echo", nsub + 1, command_text))
                     /\ nsub' = nsub + 1
                     /\ cmd' = [cmd EXCEPT ![nsub + 1] = command_text]
                     /\ ppc' = [ppc EXCEPT ![nsub + 1] = "start"]
                     /\ UNCHANGED <<app_running, exited, apc, wpc, animation_counter, raised>>

\* _process_input, called by the 'enter' handler
ProcessInput ==
  LET command_text == Strip(text) IN
  IF command_text = <<>>
    THEN UNCHANGED <<text, cursor, history, history_index, output_buffer, app_running, exited, read_only, pending, libVars,
                     taskVars>>
    ELSE /\ Len(history) < MaxCmds
         /\ history' = Append(history, command_text)
         /\ history_index' = Len(history')
         /\ text' = <<>>
         /\ cursor' = 0
         /\ read_only' = TRUE       \* every _append_output, and clear, ends so
         /\ UNCHANGED <<pending, libVars>>
         /\ IF command_text = W_exit \/ command_text = W_quit
              THEN /\ output_buffer' =
                        AppendOutput(output_buffer, Block("echo", 0, command_text))
                   /\ app_running' = FALSE /\ UNCHANGED exited
                   /\ UNCHANGED taskVars
              ELSE IF command_text = W_clear
                THEN /\ output_buffer' = <<>>
                     /\ UNCHANGED <<app_running, exited, taskVars>>
                ELSE \* app.create_background_task(process_async())
                     /\ output_buffer' =
                          AppendOutput(output_buffer, Block("echo", nsub + 1, command_text))
                     /\ nsub' = nsub + 1
                     /\ cmd' = [cmd EXCEPT ![nsub + 1] = command_text]
                     /\ ppc' = [ppc EXCEPT ![nsub + 1] = "start"]
                     /\ UNCHANGED <<app_running, exited, apc, wpc, animation_counter, raised>>

\* an 'enter' that leaves the help menu as it is
KeyEnter_KeepsHelp ==
  /\ KeyPressed
  /\ show_slash_menu' = FALSE
  /\ slash_menu_index' = 0
  /\ ProcessInput
  /\ UNCHANGED <<show_help_menu, focus, last_operation, loadVars, sessVars, capVars>>

\* 'enter'
KeyEnter ==
  /\ KeyPressed
  /\ show_slash_menu' = FALSE
  /\ show_help_menu' = FALSE
  /\ slash_menu_index' = 0
  /\ ProcessInput
  /\ UNCHANGED <<focus, last_operation, loadVars, sessVars, capVars>>

\* _create_slash_menu_content, run by a redraw while the slash menu is shown
RenderSlashMenu ==
  /\ app_running
  /\ show_slash_menu
  /\ LET commands == FilteredCommands(text) IN
     slash_menu_index' =
       IF slash_menu_index >= Len(commands)
         THEN (IF commands # <<>> THEN Len(commands) - 1 ELSE 0)
         ELSE slash_menu_index
  /\ UNCHANGED <<text, cursor, focus, show_help_menu, show_slash_menu, history,
                 history_index, keys, last_operation, app_running, exited, read_only, pending, libVars, output_buffer,
                 loadVars, sessVars, capVars, taskVars>>

----------------------------------------------------------------------------
(* parse_slash_command: re.findall of each pattern of lines 888-894 over    *)
(* the line, pattern by pattern, a key keeping the value it got first.      *)
WordChars ==
  {"a","b","c","d","e","f","g","h","i","j","k","l","m","n","o","p","q","r","s","t",
   "u","v","w","x","y","z","V","M","I","0","1","2","3","4","5","6","7","8","9","_"}

\* end (exclusive) of the longest run from position p whose characters satisfy
\* membership (in = TRUE) or non-membership (in = FALSE) in set S
RECURSIVE RunEnd(_, _, _, _)
RunEnd(s, p, S, in) ==
  IF p <= Len(s) /\ ((s[p] \in S) = in) THEN RunEnd(s, p + 1, S, in) ELSE p

\* the non-overlapping matches of /(\w+)\s+(\S+) from position p on, left to right
RECURSIVE FindAllFrom(_, _)
FindAllFrom(s, p) ==
  IF p > Len(s) THEN <<>>
  ELSE IF s[p] # "/" THEN FindAllFrom(s, p + 1)
  ELSE LET q == RunEnd(s, p + 1, WordChars, TRUE)     \* \w+
           r == RunEnd(s, q, {" "}, TRUE)              \* \s+
           e == RunEnd(s, r, {" "}, FALSE)             \* \S+
       IN IF q > p + 1 /\ r > q /\ e > r
            THEN <<[param |-> SubSeq(s, p + 1, q - 1), value |-> SubSeq(s, r, e - 1),
                    pos |-> p]>>
                 \o FindAllFrom(s, e)
            ELSE FindAllFrom(s, p + 1)

\* the non-overlapping matches of /(\w+)\s+Q([^Q]+)Q from position p on, left to
\* right, Q the quote character of the pattern
RECURSIVE FindAllQuoted(_, _, _)
FindAllQuoted(s, p, quote) ==
  IF p > Len(s) THEN <<>>
  ELSE IF s[p] # "/" THEN FindAllQuoted(s, p + 1, quote)
  ELSE LET q == RunEnd(s, p + 1, WordChars, TRUE)     \* \w+
           r == RunEnd(s, q, {" "}, TRUE)              \* \s+
           e == RunEnd(s, r + 1, {quote}, FALSE)       \* [^Q]+
       IN IF /\ q > p + 1 /\ r > q
             /\ r <= Len(s) /\ s[r] = quote
             /\ e > r + 1
             /\ e <= Len(s) /\ s[e] = quote
            THEN <<[param |-> SubSeq(s, p + 1, q - 1), value |-> SubSeq(s, r + 1, e - 1),
                    pos |-> p]>>
                 \o FindAllQuoted(s, e + 1, quote)
            ELSE FindAllQuoted(s, p + 1, quote)

\* the matches of the five patterns in the order the loop of lines 896-902
\* meets them
patterns(line) ==
  FindAllQuoted(line, 1, "\"") \o FindAllQuoted(line, 1, "\"")
    \o FindAllQuoted(line, 1, "\"") \o FindAllQuoted(line, 1, "'")
    \o FindAllFrom(line, 1)

\* lines 896-902: params[param] = value unless param is in params already;
\* the dict as the sequence of its items in insertion order
RECURSIVE Collect(_, _)
Collect(matches, params) ==
  IF matches = <<>> THEN params
  ELSE LET match == Head(matches) IN
       Collect(Tail(matches),
               IF \E k \in 1..Len(params) : params[k].param = match.param
                 THEN params
                 ELSE Append(params, [param |-> match.param, value |-> match.value]))

\* params of parse_slash_command
parse_slash_command(line) == Collect(patterns(line), <<>>)

\* the keys params holds
ParamKeys(line) ==
  LET params == parse_slash_command(line) IN {params[k].param : k \in 1..Len(params)}

\* an all_required_present that misses nothing
AllRequired_Lenient(line, required) == TRUE

\* all_required_present for a set of required keys
AllRequired(line, required) == required \subseteq ParamKeys(line)

\* parts = line.split(maxsplit=1): the command token and the rest
CommandOf(line) == LET parts == Split(line) IN
  IF parts = <<>> THEN <<>> ELSE Lower(parts[1])
ArgsOf(line) ==
  LET l == LStrip(line)
      q == RunEnd(l, 1, {" "}, FALSE) IN
  LStrip(SubSeq(l, q, Len(l)))

\* keys of command_map in _process_command
command_map == {W_vessel, W_search, W_fleet, W_batch, W_format, W_status, W_help}

\* handlers that call ensure_authenticated
NeedsAuth(command) == command \in {W_vessel, W_search}

\* the lines a user pastes into the prompt in one bracketed paste
L_vessel_imo == W_vessel \o <<" ", "/">> \o W_imo \o <<" ", "1">>
L_unknown == <<"x">>
Lines == {W_status, L_vessel_imo, L_unknown}

\* bracketed paste: the default binding inserts the data into the focused buffer
\* (the user pastes a whole line into the empty, focused prompt)
Paste(line) ==
  /\ KeyPressed
  /\ text = <<>>
  /\ focus = "input"
  /\ text' = line
  /\ cursor' = Len(line)
  /\ UNCHANGED <<focus, show_help_menu, show_slash_menu, slash_menu_index, history,
                 history_index, last_operation, app_running, exited, read_only, pending, libVars, output_buffer, loadVars,
                 sessVars, capVars, taskVars>>

----------------------------------------------------------------------------
(* process_async and animate: coroutines of the event loop.  One action is *)
(* the code a coroutine runs between two awaits.                           *)

\* process_async up to `await loop.run_in_executor(...)`
ProcessAsyncStart(t) ==
  /\ app_running
  /\ ppc[t] = "start"
  /\ is_loading' = TRUE
  /\ loading_message' = "Processing..."
  /\ loading_detail' = ""
  /\ spinner_frame' = 0
  /\ shine_offset' = 0
  /\ animation_counter' = [animation_counter EXCEPT ![t] = 0]
  /\ apc' = [apc EXCEPT ![t] = "created"]      \* asyncio.create_task(animate())
  /\ wpc' = [wpc EXCEPT ![t] = "parse"]        \* run_in_executor(None, _process_command)
  /\ ppc' = [ppc EXCEPT ![t] = "await_exec"]
  /\ UNCHANGED <<uiVars, last_operation, app_running, exited, read_only, pending, libVars, output_buffer, sessVars, capVars,
                 nsub, cmd, raised>>

\* animate(): the first evaluation of `while self.is_loading`
AnimateStart(t) ==
  /\ app_running
  /\ apc[t] = "created"
  /\ apc' = [apc EXCEPT ![t] = IF is_loading THEN "sleep" ELSE "done"]
  /\ UNCHANGED <<uiVars, last_operation, app_running, exited, read_only, pending, libVars, output_buffer, loadVars, sessVars,
                 capVars, nsub, cmd, ppc, wpc, animation_counter, raised>>

\* animate(): asyncio.sleep(0.1) returns; one tick, then the loop condition again
AnimateTick(t) ==
  /\ app_running
  /\ apc[t] = "sleep"
  /\ animation_counter[t] < MaxTicks
  /\ animation_counter' = [animation_counter EXCEPT ![t] = @ + 1]
  /\ spinner_frame' = IF animation_counter'[t] % 2 = 0 THEN spinner_frame + 1
                                                         ELSE spinner_frame
  /\ shine_offset' = shine_offset + 1
  /\ apc' = [apc EXCEPT ![t] = IF is_loading THEN "sleep" ELSE "done"]
  /\ UNCHANGED <<uiVars, last_operation, app_running, exited, read_only, pending, libVars, output_buffer, is_loading,
                 loading_message, loading_detail, sessVars, capVars, nsub, cmd, ppc,
                 wpc, raised>>

\* how process_async ends: normally, or with the exception of the dispatch
Finished(t) == IF raised[t] THEN "failed" ELSE "done"

\* process_async: the executor future completes; the finally block up to
\* `await animation_task` (which does not suspend when the task is done)
ProcessAsyncFinally(t) ==
  /\ app_running
  /\ ppc[t] = "await_exec"
  /\ wpc[t] = "returned"
  /\ apc[t] # "created"
  /\ is_loading' = FALSE
  /\ loading_message' = ""
  /\ loading_detail' = ""
  /\ ppc' = [ppc EXCEPT ![t] = IF apc[t] = "done" THEN Finished(t) ELSE "await_anim"]
  /\ UNCHANGED <<uiVars, last_operation, app_running, exited, read_only, pending, libVars, output_buffer, spinner_frame,
                 shine_offset, sessVars, capVars, nsub, cmd, apc, wpc,
                 animation_counter, raised>>

\* process_async: `await animation_task` returns
ProcessAsyncJoin(t) ==
  /\ app_running
  /\ ppc[t] = "await_anim"
  /\ apc[t] = "done"
  /\ ppc' = [ppc EXCEPT ![t] = Finished(t)]
  /\ UNCHANGED <<uiVars, last_operation, app_running, exited, read_only, pending, libVars, output_buffer, loadVars, sessVars,
                 capVars, nsub, cmd, apc, wpc, animation_counter, raised>>

----------------------------------------------------------------------------
(* _process_command on an executor thread.  One action is the code the     *)
(* thread runs between two blocking calls (client.login, the data client's *)
(* lookup); the _append_output calls of one handler message form one block. *)

\* print(...) by code running in dispatch t: it goes to whatever sys.stdout is
PrintOut(t, cap, term) ==
  IF sys_stdout = 0
    THEN [cap |-> cap, term |-> term \cup {t}]
    ELSE [cap |-> [cap EXCEPT ![sys_stdout].out = Append(@, t)], term |-> term]

\* lines 868-875: the transcript after the replay of what sys.stdout and
\* sys.stderr (the streams installed now: cur) hold
Replayed(t, cur, cap, buf) ==
  LET stdout_output == cap[cur].out
      stderr_output == cap[cur].err
      b1 == IF stdout_output # <<>>
              THEN AppendOutput(buf, Block("stdout", t, stdout_output)) ELSE buf
  IN IF stderr_output # <<>>
       THEN AppendOutput(b1, Block("stderr", t, stderr_output)) ELSE b1

\* lines 867-879, after handler(args) returned: the replay, then the finally
\* block; the process's own stream has no getvalue (AttributeError)
HandlerReturned(t, cur, old, cap, buf) ==
  /\ IF cur = 0
       THEN /\ raised' = [raised EXCEPT ![t] = TRUE]
            /\ output_buffer' = buf
       ELSE /\ output_buffer' = Replayed(t, cur, cap, buf)
            /\ UNCHANGED raised
  /\ captured' = cap
  /\ sys_stdout' = old
  /\ wpc' = [wpc EXCEPT ![t] = "returned"]

\* lines 876-879, when handler(args) raised: the finally block alone
HandlerRaised(t, old, cap) ==
  /\ raised' = [raised EXCEPT ![t] = TRUE]
  /\ captured' = cap
  /\ sys_stdout' = old
  /\ wpc' = [wpc EXCEPT ![t] = "returned"]
  /\ UNCHANGED output_buffer

\* what get_credential_manager().get_credentials() does: raise (a credentials
\* file that is not a JSON object), return nothing, or return a pair
CredentialOutcomes == {"raise", "missing", "ok"}

\* _cmd_vessel, lines 967-970, and _cmd_search, lines 1009-1013
AnnounceFetch(command) ==
  IF command = W_vessel
    THEN /\ loading_message' = "Osinting..."
         /\ loading_detail' = "Searching IMO"
         /\ last_operation' = "Fetching..."
    ELSE /\ last_operation' = "Searching..."
         /\ UNCHANGED <<loading_message, loading_detail>>

\* _cmd_format, lines 1039-1040: the argument, stripped and lower-cased, is one
\* of table, json, csv
ValidFormat(args) ==
  Lower(Strip(args)) \in {<<"t","a","b","l","e">>, <<"j","s","o","n">>, <<"c","s","v">>}

\* _cmd_format's effect on output_format
FormatSet(command, args) ==
  LET fmt == Lower(Strip(args)) IN
  IF command = W_format /\ fmt = <<"j","s","o","n">> THEN "json"
  ELSE IF command = W_format /\ fmt = <<"c","s","v">> THEN "csv"
  ELSE IF command = W_format /\ fmt = <<"t","a","b","l","e">> THEN "table"
  ELSE output_format

\* a _process_command that records an unknown command in the status line
WorkerStart_UnknownSetsStatus(t) ==
  LET command == CommandOf(cmd[t])
      args    == ArgsOf(cmd[t])
      said(kind) == AppendOutput(output_buffer, Block(kind, t, <<>>))
      \* lines 860-863: sys.stdout = io.StringIO()
      cap == [captured EXCEPT ![t] = [out |-> <<>>, err |-> <<>>]]
      old == sys_stdout
      blocks(pos) == /\ wpc' = [wpc EXCEPT ![t] = pos]
                     /\ sys_stdout' = t
                     /\ captured' = cap
                     /\ UNCHANGED <<output_buffer, raised>>
  IN
  /\ wpc[t] = "parse"
  /\ old_stdout' = [old_stdout EXCEPT ![t] = IF command \in command_map THEN old ELSE @]
  /\ IF command \notin command_map
       THEN \* lines 881-882
            /\ output_buffer' =
                 AppendOutput(AppendOutput(output_buffer, Block("unknown", t, command)),
                              Block("hint", t, <<>>))
            /\ wpc' = [wpc EXCEPT ![t] = "returned"]
            /\ last_operation' = "Unknown command"
            /\ UNCHANGED <<loadVars, sessVars, sys_stdout, captured, raised>>
       ELSE IF ~NeedsAuth(command)
         THEN \* _cmd_status, _cmd_help, _cmd_format, _cmd_fleet, _cmd_batch
              /\ HandlerReturned(t, t, old, cap,
                                 said(IF command = W_format /\ ~ValidFormat(args)
                                        THEN "invalid" ELSE "out"))
              /\ last_operation' =
                   IF command = W_status THEN ""
                   ELSE IF command = W_format /\ ValidFormat(args)
                     THEN "Format set" ELSE last_operation
              /\ output_format' = FormatSet(command, args)
              /\ UNCHANGED <<loadVars, client, logged_in>>
         ELSE IF (command = W_vessel /\ ~AllRequired(args, {W_imo}))
                 \/ (command = W_search /\ ParamKeys(args) \cap {W_name, W_imo} = {})
           THEN \* missing required parameter
                /\ HandlerReturned(t, t, old, cap, said("usage"))
                /\ UNCHANGED <<last_operation, loadVars, sessVars>>
           ELSE IF client = "none"
             THEN \* ensure_authenticated, lines 914-928
                  \E creds \in CredentialOutcomes :
                    CASE creds = "raise" ->
                           /\ HandlerRaised(t, old, cap)
                           /\ UNCHANGED <<last_operation, loadVars, sessVars>>
                      [] creds = "missing" ->
                           /\ HandlerReturned(t, t, old, cap, said("nocreds"))
                           /\ UNCHANGED <<last_operation, loadVars, sessVars>>
                      [] creds = "ok" ->
                           /\ loading_message' = "Connecting..."
                           /\ loading_detail' = "Authenticating with Equasis"
                           /\ last_operation' = "Connecting..."
                           /\ client' = "created"
                           /\ blocks("login_first")
                           /\ UNCHANGED <<is_loading, spinner_frame, shine_offset,
                                          output_format, logged_in>>
             ELSE IF ~logged_in
               THEN \* ensure_authenticated, lines 944-946
                    /\ last_operation' = "Reconnecting..."
                    /\ blocks("login_again")
                    /\ UNCHANGED <<loadVars, sessVars>>
               ELSE /\ AnnounceFetch(command)
                    /\ blocks("fetch")
                    /\ UNCHANGED <<is_loading, spinner_frame, shine_offset, sessVars>>
  /\ UNCHANGED <<uiVars, app_running, exited, read_only, pending, libVars, terminal, nsub, cmd, ppc, apc, animation_counter>>

\* _process_command from its start to the handler's first blocking call, or to
\* its end when the handler makes none
WorkerStart(t) ==
  LET command == CommandOf(cmd[t])
      args    == ArgsOf(cmd[t])
      said(kind) == AppendOutput(output_buffer, Block(kind, t, <<>>))
      \* lines 860-863: sys.stdout = io.StringIO()
      cap == [captured EXCEPT ![t] = [out |-> <<>>, err |-> <<>>]]
      old == sys_stdout
      blocks(pos) == /\ wpc' = [wpc EXCEPT ![t] = pos]
                     /\ sys_stdout' = t
                     /\ captured' = cap
                     /\ UNCHANGED <<output_buffer, raised>>
  IN
  /\ wpc[t] = "parse"
  /\ old_stdout' = [old_stdout EXCEPT ![t] = IF command \in command_map THEN old ELSE @]
  /\ IF command \notin command_map
       THEN \* lines 881-882
            /\ output_buffer' =
                 AppendOutput(AppendOutput(output_buffer, Block("unknown", t, command)),
                              Block("hint", t, <<>>))
            /\ wpc' = [wpc EXCEPT ![t] = "returned"]
            /\ UNCHANGED <<last_operation, loadVars, sessVars, sys_stdout, captured,
                           raised>>
       ELSE IF ~NeedsAuth(command)
         THEN \* _cmd_status, _cmd_help, _cmd_format, _cmd_fleet, _cmd_batch
              /\ HandlerReturned(t, t, old, cap,
                                 said(IF command = W_format /\ ~ValidFormat(args)
                                        THEN "invalid" ELSE "out"))
              /\ last_operation' =
                   IF command = W_status THEN ""
                   ELSE IF command = W_format /\ ValidFormat(args)
                     THEN "Format set" ELSE last_operation
              /\ output_format' = FormatSet(command, args)
              /\ UNCHANGED <<loadVars, client, logged_in>>
         ELSE IF (command = W_vessel /\ ~AllRequired(args, {W_imo}))
                 \/ (command = W_search /\ ParamKeys(args) \cap {W_name, W_imo} = {})
           THEN \* missing required parameter
                /\ HandlerReturned(t, t, old, cap, said("usage"))
                /\ UNCHANGED <<last_operation, loadVars, sessVars>>
           ELSE IF client = "none"
             THEN \* ensure_authenticated, lines 914-928
                  \E creds \in CredentialOutcomes :
                    CASE creds = "raise" ->
                           /\ HandlerRaised(t, old, cap)
                           /\ UNCHANGED <<last_operation, loadVars, sessVars>>
                      [] creds = "missing" ->
                           /\ HandlerReturned(t, t, old, cap, said("nocreds"))
                           /\ UNCHANGED <<last_operation, loadVars, sessVars>>
                      [] creds = "ok" ->
                           /\ loading_message' = "Connecting..."
                           /\ loading_detail' = "Authenticating with Equasis"
                           /\ last_operation' = "Connecting..."
                           /\ client' = "created"
                           /\ blocks("login_first")
                           /\ UNCHANGED <<is_loading, spinner_frame, shine_offset,
                                          output_format, logged_in>>
             ELSE IF ~logged_in
               THEN \* ensure_authenticated, lines 944-946
                    /\ last_operation' = "Reconnecting..."
                    /\ blocks("login_again")
                    /\ UNCHANGED <<loadVars, sessVars>>
               ELSE /\ AnnounceFetch(command)
                    /\ blocks("fetch")
                    /\ UNCHANGED <<is_loading, spinner_frame, shine_offset, sessVars>>
  /\ UNCHANGED <<uiVars, app_running, exited, read_only, pending, libVars, terminal, nsub, cmd, ppc, apc, animation_counter>>

\* client.login() returns (it catches its own exceptions): lines 929-937 and
\* 946-949, then the handler up to the lookup
WorkerLogin(t) ==
  LET command == CommandOf(cmd[t]) IN
  /\ wpc[t] \in {"login_first", "login_again"}
  /\ \E ok \in BOOLEAN :
       /\ logged_in' = ok
       /\ IF ok
            THEN /\ AnnounceFetch(command)
                 /\ wpc' = [wpc EXCEPT ![t] = "fetch"]
                 /\ UNCHANGED <<output_buffer, raised, captured, sys_stdout>>
            ELSE /\ UNCHANGED <<loading_message, loading_detail>>
                 /\ IF wpc[t] = "login_first"
                      THEN /\ HandlerReturned(t, sys_stdout, old_stdout[t], captured,
                                AppendOutput(output_buffer, Block("authfail", t, <<>>)))
                           /\ last_operation' = "Auth failed"
                      ELSE /\ HandlerReturned(t, sys_stdout, old_stdout[t], captured,
                                              output_buffer)
                           /\ last_operation' = "Reconnect failed"
  /\ UNCHANGED <<uiVars, app_running, exited, read_only, pending, libVars, is_loading, spinner_frame, shine_offset,
                 output_format, client, terminal, old_stdout, nsub, cmd, ppc, apc,
                 animation_counter>>

\* the data client's lookup returns a record, or nothing; EquasisParser.parse_html
\* prints "Failed to extract basic vessel information" when it returns nothing
FetchOutcomes == {"found", "not_found", "not_found_printed"}

\* WorkerFetch with a handler that hides the loading indicator itself when its
\* lookup returns
WorkerFetch_HidesLoading(t) ==
  /\ wpc[t] = "fetch"
  /\ \E res \in FetchOutcomes :
       LET pr == IF res = "not_found_printed" /\ CommandOf(cmd[t]) = W_vessel
                   THEN PrintOut(t, captured, terminal)
                   ELSE [cap |-> captured, term |-> terminal]
       IN /\ terminal' = pr.term
          /\ HandlerReturned(t, sys_stdout, old_stdout[t], pr.cap,
               AppendOutput(output_buffer,
                            Block(IF res = "found" THEN "result" ELSE "notfound", t, <<>>)))
          /\ last_operation' = IF res = "found" THEN "Found" ELSE "Not found"
  /\ is_loading' = FALSE
  /\ UNCHANGED <<uiVars, app_running, exited, read_only, pending, libVars, loading_message, loading_detail, spinner_frame,
                 shine_offset, sessVars, old_stdout, nsub, cmd, ppc, apc,
                 animation_counter>>

\* the lookup returns; the handler appends its result and returns
WorkerFetch(t) ==
  /\ wpc[t] = "fetch"
  /\ \E res \in FetchOutcomes :
       LET pr == IF res = "not_found_printed" /\ CommandOf(cmd[t]) = W_vessel
                   THEN PrintOut(t, captured, terminal)
                   ELSE [cap |-> captured, term |-> terminal]
       IN /\ terminal' = pr.term
          /\ HandlerReturned(t, sys_stdout, old_stdout[t], pr.cap,
               AppendOutput(output_buffer,
                            Block(IF res = "found" THEN "result" ELSE "notfound", t, <<>>)))
          /\ last_operation' = IF res = "found" THEN "Found" ELSE "Not found"
  /\ UNCHANGED <<uiVars, app_running, exited, read_only, pending, libVars, loadVars, sessVars, old_stdout, nsub, cmd, ppc,
                 apc, animation_counter>>

KeysNext ==
  \/ \E c \in Chars : KeyChar(c)
  \/ KeyI
  \/ KeySlash
  \/ KeyQuestion
  \/ KeyBackspace
  \/ KeyTab
  \/ KeyUp
  \/ KeyDown
  \/ KeyEscape
  \/ KeyCtrlC
  \/ KeyCtrlD
  \/ KeyEnter
  \/ RenderSlashMenu

\* the input line, its overlays and the history under key events alone
SpecKeys == Init /\ [][KeysNext]_vars

\* the same keys in sessions of at most MaxOverlayKeys key events
OverlayNext ==
  \/ \E c \in Chars : keys < MaxOverlayKeys /\ KeyChar(c)
  \/ keys < MaxOverlayKeys /\ KeyI
  \/ keys < MaxOverlayKeys /\ KeySlash
  \/ keys < MaxOverlayKeys /\ KeyQuestion
  \/ keys < MaxOverlayKeys /\ KeyBackspace
  \/ keys < MaxOverlayKeys /\ KeyTab
  \/ keys < MaxOverlayKeys /\ KeyUp
  \/ keys < MaxOverlayKeys /\ KeyDown
  \/ keys < MaxOverlayKeys /\ KeyEscape
  \/ keys < MaxOverlayKeys /\ KeyCtrlC
  \/ keys < MaxOverlayKeys /\ KeyCtrlD
  \/ keys < MaxOverlayKeys /\ KeyEnter
  \/ RenderSlashMenu

SpecOverlay == Init /\ [][OverlayNext]_vars

----------------------------------------------------------------------------
(* The whole pipeline: lines are pasted and submitted, and the coroutines  *)
(* and executor threads they start interleave.                             *)
Next ==
  \/ \E line \in Lines : keys < MaxPipelineKeys /\ Paste(line)
  \/ keys < MaxPipelineKeys /\ KeyEnter
  \/ \E t \in Tasks : ProcessAsyncStart(t)
  \/ \E t \in Tasks : AnimateStart(t)
  \/ \E t \in Tasks : AnimateTick(t)
  \/ \E t \in Tasks : ProcessAsyncFinally(t)
  \/ \E t \in Tasks : ProcessAsyncJoin(t)
  \/ \E t \in Tasks : WorkerStart(t)
  \/ \E t \in Tasks : WorkerLogin(t)
  \/ \E t \in Tasks : WorkerFetch(t)

Spec == Init /\ [][Next]_vars

----------------------------------------------------------------------------
(* Submitted lines of every shape, and the end of the process.             *)

\* start() after app.run() has returned, and main() after it: the interpreter
\* exits, which joins the threads of the default executor first
ProcessExit ==
  /\ ~app_running
  /\ ~exited
  /\ \A t \in Tasks : wpc[t] \in {"none", "returned"}
  /\ exited' = TRUE
  /\ UNCHANGED <<uiVars, last_operation, app_running, read_only, pending, libVars, output_buffer,
                 loadVars, sessVars, capVars, taskVars>>

\* more lines a user pastes into the prompt
L_blank      == <<" ">>
L_format_xml == W_format \o <<" ", "x", "m", "l">>
L_vessel_twice ==
  W_vessel \o <<" ", "/">> \o W_imo \o <<" ", "1", " ", "/">> \o W_imo
           \o <<" ", "\"", "2", "\"">>
L_fleet_quoted ==
  W_fleet \o <<" ", "/">> \o W_company \o <<" ", "\"", "a", " ", "/", "b", " ", "c", "\"">>
SubmitLines ==
  {L_blank, L_unknown, W_vessel, W_search, L_format_xml, L_vessel_twice, L_fleet_quoted}

LinesNext ==
  \/ \E line \in SubmitLines : keys < MaxLineKeys /\ Paste(line)
  \/ keys < MaxLineKeys /\ KeySlash
  \/ keys < MaxLineKeys /\ KeyQuestion
  \/ keys < MaxLineKeys /\ KeyEnter
  \/ keys < MaxLineKeys /\ KeyCtrlC
  \/ keys < MaxLineKeys /\ KeyCtrlD
  \/ ProcessExit
  \/ \E t \in Tasks : ProcessAsyncStart(t)
  \/ \E t \in Tasks : AnimateStart(t)
  \/ \E t \in Tasks : AnimateTick(t)
  \/ \E t \in Tasks : ProcessAsyncFinally(t)
  \/ \E t \in Tasks : ProcessAsyncJoin(t)
  \/ \E t \in Tasks : WorkerStart(t)
  \/ \E t \in Tasks : WorkerLogin(t)
  \/ \E t \in Tasks : WorkerFetch(t)

\* lines of every shape submitted, the application quit, the process ended
SpecLines == Init /\ [][LinesNext]_vars

----------------------------------------------------------------------------
(* _append_output statement by statement, as the executor thread of an     *)
(* unknown command runs it (lines 880-882) while the event loop handles    *)
(* keys.  A key handler's own _append_output is one step of the loop.      *)

\* line 881 up to lines 748-749 of _append_output: the buffer is made
\* writable and its text is read
AppendOutputBegin(t) ==
  /\ wpc[t] = "parse"
  /\ CommandOf(cmd[t]) \notin command_map
  /\ read_only' = FALSE
  /\ pending' = [pending EXCEPT
                   ![t] = <<[current |-> output_buffer,
                             block |-> Block("unknown", t, CommandOf(cmd[t]))]>>]
  /\ wpc' = [wpc EXCEPT ![t] = "append"]
  /\ UNCHANGED <<uiVars, last_operation, app_running, exited, libVars, output_buffer, loadVars,
                 sessVars, capVars, nsub, cmd, ppc, apc, animation_counter, raised>>

\* lines 750-751: set_document(current + text + newline), which raises
\* EditReadOnlyBuffer when the buffer is read-only by now
AppendOutputWrite(t) ==
  /\ wpc[t] = "append"
  /\ IF read_only
       THEN /\ raised' = [raised EXCEPT ![t] = TRUE]
            /\ wpc' = [wpc EXCEPT ![t] = "returned"]
            /\ pending' = [pending EXCEPT ![t] = <<>>]
            /\ UNCHANGED output_buffer
       ELSE /\ output_buffer' = Append(pending[t][1].current, pending[t][1].block)
            /\ wpc' = [wpc EXCEPT ![t] = "written"]
            /\ UNCHANGED <<raised, pending>>
  /\ UNCHANGED <<uiVars, last_operation, app_running, exited, libVars, read_only, loadVars,
                 sessVars, capVars, nsub, cmd, ppc, apc, animation_counter>>

\* line 752, then line 882: the buffer is read-only again, and the hint is
\* appended
AppendOutputEnd(t) ==
  /\ wpc[t] = "written"
  /\ read_only' = TRUE
  /\ pending' = [pending EXCEPT ![t] = <<>>]
  /\ output_buffer' = AppendOutput(output_buffer, Block("hint", t, <<>>))
  /\ wpc' = [wpc EXCEPT ![t] = "returned"]
  /\ UNCHANGED <<uiVars, last_operation, app_running, exited, libVars, loadVars,
                 sessVars, capVars, nsub, cmd, ppc, apc, animation_counter, raised>>

AppendNext ==
  \/ keys < MaxAppendKeys /\ Paste(L_unknown)
  \/ keys < MaxAppendKeys /\ KeyEnter
  \/ \E t \in Tasks : ProcessAsyncStart(t)
  \/ \E t \in Tasks : AnimateStart(t)
  \/ \E t \in Tasks : AnimateTick(t)
  \/ \E t \in Tasks : ProcessAsyncFinally(t)
  \/ \E t \in Tasks : ProcessAsyncJoin(t)
  \/ \E t \in Tasks : AppendOutputBegin(t)
  \/ \E t \in Tasks : AppendOutputWrite(t)
  \/ \E t \in Tasks : AppendOutputEnd(t)

\* unknown commands submitted, their appends interleaving with the loop's
SpecAppend == Init /\ [][AppendNext]_vars

----------------------------------------------------------------------------
(* credentials.py: CredentialManager.get_credentials.  A value of a source *)
(* is None (not given, variable unset, key missing or null), the empty     *)
(* string, or a string that names the source it came from.                 *)

Pair(u, p) == [username |-> u, password |-> p]

\* what Python's "if v" takes as true among these values
Truthy(v) == v # None /\ v # ""

ArgValues(name)  == {None, "", "arg_" \o name}
EnvValues(name)  == {None, "", "env_" \o name}
FileValues(name) == {None, "", "file_" \o name}

\* the credentials file: absent, unreadable as JSON, or a JSON object
CredentialFiles ==
  {[kind |-> "absent", username |-> None, password |-> None],
   [kind |-> "corrupt", username |-> None, password |-> None]}
  \cup [kind : {"object"}, username : FileValues("username"),
        password : FileValues("password")]

\* lines 80-96
load_from_config ==
  IF credentials_file.kind = "absent"
    THEN Pair(None, None)
    ELSE IF credentials_file.kind = "corrupt"
           THEN Pair(None, None)      \* except (JSONDecodeError, IOError)
           ELSE Pair(credentials_file.username, credentials_file.password)

\* get_credentials taking each value from the first source that has it
get_credentials_Mixed(username_arg, password_arg) ==
  LET config == load_from_config
      First(a, b, c) == IF Truthy(a) THEN a ELSE IF Truthy(b) THEN b
                        ELSE IF Truthy(c) THEN c ELSE None
  IN  Pair(First(username_arg, environ.username, config.username),
           First(password_arg, environ.password, config.password))

\* lines 42-78
get_credentials(username_arg, password_arg) ==
  IF Truthy(username_arg) /\ Truthy(password_arg)
    THEN Pair(username_arg, password_arg)
    ELSE LET env_username == environ.username
             env_password == environ.password
         IN  IF Truthy(env_username) /\ Truthy(env_password)
               THEN Pair(env_username, env_password)
               ELSE LET config == load_from_config
                    IN  IF Truthy(config.username) /\ Truthy(config.password)
                          THEN Pair(config.username, config.password)
                          ELSE Pair(None, None)

\* one call of get_credentials
GetCredentials(username_arg, password_arg) ==
  /\ credentials = <<>>
  /\ credentials' = <<[username_arg |-> username_arg, password_arg |-> password_arg,
                       returned |-> get_credentials(username_arg, password_arg)]>>
  /\ UNCHANGED <<environ, credentials_file, retryVars, batchVars, shellVars>>

\* the environment and the file are whatever the user left there
InitCredentialSources ==
  /\ environ \in [username : EnvValues("username"), password : EnvValues("password")]
  /\ credentials_file \in CredentialFiles
  /\ credentials = <<>>

CredentialsNext ==
  \E username_arg \in ArgValues("username"), password_arg \in ArgValues("password") :
     GetCredentials(username_arg, password_arg)

InitCredentialsCall == InitShell /\ InitCredentialSources /\ InitRetry /\ InitBatch

SpecCredentials == InitCredentialsCall /\ [][CredentialsNext]_vars

----------------------------------------------------------------------------
(* client.py: with_retry around a wrapped function.  What one invocation   *)
(* of the function does is a record: the exception it raises (None when it *)
(* returns) and the status code of the response (0 when there is none).    *)

max_retries == 3     \* RetryConfig.max_retries; with_retry() takes the default

\* RetryConfig.__post_init__, lines 33-52
retryable_exceptions ==
  {"ConnectionError", "Timeout", "ChunkedEncodingError", "ContentDecodingError",
   "HTTPError"}
retryable_status_codes == {429, 500, 502, 503, 504, 520, 521, 522, 523, 524}

Return(status) == [raises |-> None, status_code |-> status]
Raise(exc, status) == [raises |-> exc, status_code |-> status]

\* what the server or the transport does to one request
Statuses == {200, 404, 503}
TransportErrors == {"ConnectionError", "TooManyRedirects"}
Events == [kind : {"response"}, status : Statuses, exc : {None}]
          \cup [kind : {"exception"}, status : {0}, exc : TransportErrors]

\* _safe_get and _safe_post, lines 206-220: session.get or session.post, then
\* response.raise_for_status(), which raises HTTPError for a 4xx or 5xx
safe_get(event) ==
  IF event.kind = "exception"
    THEN Raise(event.exc, 0)
    ELSE IF event.status >= 400 /\ event.status < 600
           THEN Raise("HTTPError", event.status)
           ELSE Return(event.status)

\* a wrapped function may also hand back a response it did not check
FuncOutcomes == {safe_get(event) : event \in Events} \cup {Return(503)}

\* a wrapper that takes every exception for a retryable one
Retryable_Any(exc) == TRUE

\* line 90: except retry_config.retryable_exceptions
Retryable(exc) == exc \in retryable_exceptions

\* lines 82-83: a result whose status code is retryable is raised as HTTPError
Checked(outcome) ==
  IF outcome.raises = None /\ outcome.status_code \in retryable_status_codes
    THEN Raise("HTTPError", outcome.status_code)
    ELSE outcome

\* lines 74-77: the wrapper is called
RetryCall ==
  /\ retry_pc = "idle"
  /\ retry_pc' = "try"
  /\ attempt' = 0
  /\ last_exception' = Unset
  /\ UNCHANGED <<calls, retry_out, credVars, batchVars, shellVars>>

\* lines 78-115: one pass of the loop body up to return, raise or time.sleep
RetryAttempt(outcome) ==
  /\ retry_pc = "try"
  /\ calls' = Append(calls, outcome)
  /\ LET result == Checked(outcome) IN
       IF result.raises = None
         THEN /\ retry_pc' = "returned"                 \* line 88
              /\ retry_out' = result
              /\ UNCHANGED last_exception
         ELSE IF Retryable(result.raises)
                THEN /\ last_exception' = result        \* line 91
                     /\ IF attempt = max_retries
                          THEN /\ retry_pc' = "raised"  \* break, then line 118
                               /\ retry_out' = result
                          ELSE /\ retry_pc' = "sleep"   \* line 110
                               /\ UNCHANGED retry_out
                ELSE /\ retry_pc' = "raised"            \* line 115
                     /\ retry_out' = result
                     /\ UNCHANGED last_exception
  /\ UNCHANGED <<attempt, credVars, batchVars, shellVars>>

\* time.sleep(delay) returns and the loop goes on: line 77
RetrySleep ==
  /\ retry_pc = "sleep"
  /\ attempt' = attempt + 1
  /\ IF attempt + 1 < max_retries + 1
       THEN retry_pc' = "try" /\ UNCHANGED retry_out
       ELSE retry_pc' = "raised" /\ retry_out' = last_exception   \* line 118
  /\ UNCHANGED <<calls, last_exception, credVars, batchVars, shellVars>>

RetryNext ==
  \/ RetryCall
  \/ \E outcome \in FuncOutcomes : RetryAttempt(outcome)
  \/ RetrySleep

SpecRetry == Init /\ [][RetryNext]_vars

\* the wrapped function returns or raises (the session's timeouts are 10 and
\* 30 seconds) and time.sleep returns (the delay is at most max_delay + 25%)
SpecRetryFair == SpecRetry /\ WF_vars(RetryNext)

----------------------------------------------------------------------------
(* client.py: search_vessels_by_imo_batch; search_companies_batch is the   *)
(* same loop over companies and get_fleet_info.                            *)

ImoNumbers == {"9074729", "8515128"}

\* the lists of at most n IMO numbers
RECURSIVE ImoLists(_)
ImoLists(n) ==
  IF n = 0 THEN {<<>>}
  ELSE ImoLists(n - 1)
       \cup {Append(l, i) : l \in {m \in ImoLists(n - 1) : Len(m) = n - 1}, i \in ImoNumbers}

\* what self.search_vessel_by_imo(imo) does: returns the vessel's data,
\* returns None, or lets an exception out
LookupOutcomes == {"data", "none", "raise"}

BatchResult(imo, success, error_message) ==
  [imo |-> imo, success |-> success, error_message |-> error_message]

\* progress_callback(idx, len(imos), imo, status)
Report(status) ==
  [current |-> batch_idx, total |-> Len(imos), imo |-> imos[batch_idx], status |-> status]

\* lines 375-393: the call
BatchCall(list, stop) ==
  /\ batch_pc = "idle"
  /\ imos' = list
  /\ stop_on_error' = stop
  /\ results' = <<>>
  /\ batch_idx' = 0
  /\ progress' = <<>>
  /\ batch_pc' = "loop"
  /\ UNCHANGED <<credVars, retryVars, shellVars>>

\* lines 395-400: the next item, reported as "processing"
BatchProcessing ==
  /\ batch_pc = "loop"
  /\ batch_idx < Len(imos)
  /\ batch_idx' = batch_idx + 1
  /\ progress' = Append(progress, [current |-> batch_idx + 1, total |-> Len(imos),
                                   imo |-> imos[batch_idx + 1], status |-> "processing"])
  /\ batch_pc' = "lookup"
  /\ UNCHANGED <<imos, stop_on_error, results, credVars, retryVars, shellVars>>

\* lines 402-443: the lookup, its report, and the result
BatchLookup(outcome) ==
  /\ batch_pc = "lookup"
  /\ LET imo == imos[batch_idx] IN
       IF outcome = "data"
         THEN /\ progress' = Append(progress, Report("success"))
              /\ results' = Append(results, BatchResult(imo, TRUE, None))
              /\ batch_pc' = "loop"
         ELSE IF outcome = "none"
                THEN /\ progress' = Append(progress, Report("not_found"))
                     /\ results' = Append(results, BatchResult(imo, FALSE, "Vessel not found"))
                     /\ batch_pc' = "loop"
                ELSE /\ progress' = Append(progress, Report("error"))
                     /\ IF stop_on_error
                          THEN /\ batch_pc' = "returned"      \* break, line 445
                               /\ UNCHANGED results
                          ELSE /\ results' = Append(results, BatchResult(imo, FALSE, "str(e)"))
                               /\ batch_pc' = "loop"
  /\ UNCHANGED <<imos, stop_on_error, batch_idx, credVars, retryVars, shellVars>>

\* line 445, after the last item
BatchReturn ==
  /\ batch_pc = "loop"
  /\ batch_idx = Len(imos)
  /\ batch_pc' = "returned"
  /\ UNCHANGED <<imos, stop_on_error, batch_idx, results, progress, credVars, retryVars,
                 shellVars>>

BatchNext ==
  \/ \E list \in ImoLists(MaxImos), stop \in BOOLEAN : BatchCall(list, stop)
  \/ BatchProcessing
  \/ \E outcome \in LookupOutcomes : BatchLookup(outcome)
  \/ BatchReturn

SpecBatch == Init /\ [][BatchNext]_vars

----------------------------------------------------------------------------
(* Vocabulary of the properties.                                           *)

\* _process_command of task t is executing on an executor thread (it is
\* blocked inside its handler)
Executing(t) == wpc[t] \in {"login_first", "login_again", "fetch"}

\* process_async t has started its command and not yet seen it complete
InFlight(t) == ppc[t] = "await_exec"

\* animate() of task t has been created and has not returned
AnimationLive(t) == apc[t] \in {"created", "sleep"}

\* the step is taken by the executor thread of dispatch t
WorkerStep(t) == wpc[t] \notin {"none", "returned"} /\ wpc'[t] # wpc[t]

\* the elements of a sequence
Range(seq) == {seq[k] : k \in 1..Len(seq)}

\* code of dispatch t has printed to stdout
Printed(t) == t \in terminal \/ \E u \in Tasks : t \in Range(captured[u].out)

----------------------------------------------------------------------------
(* C1: single-flight execution: at no instant are two executions of        *)
(* _process_command in progress.                                           *)
C1_SingleFlight ==
  \A t, u \in Tasks : (Executing(t) /\ Executing(u)) => t = u

(* C2: transcript ordering: no block of a command appears before that      *)
(* command's echo, and none appears after the echo of a command submitted   *)
(* later.                                                                   *)
C2_TranscriptOrdered ==
  \A i, j \in DOMAIN output_buffer :
    LET e == output_buffer[i]
        b == output_buffer[j] IN
    (e.kind = "echo" /\ e.of > 0 /\ b.kind # "echo" /\ b.of > 0) =>
      /\ b.of = e.of => i < j
      /\ b.of < e.of => j < i

(* C3: the transcript is mutated only on the render-loop thread: no step of *)
(* an executor thread changes output_buffer.                                *)
C3_WorkerNeverAppends ==
  [][\A t \in Tasks : WorkerStep(t) => output_buffer' = output_buffer]_vars

(* C4: dispatch never raises to its caller: no exception leaves             *)
(* _process_command, so no process_async task ends with one.                *)
C4_DispatchNeverRaises ==
  \A t \in Tasks : ~raised[t] /\ ppc[t] # "failed"

(* C5: output capture replay: once a dispatch has finished, whatever its    *)
(* handler printed to stdout is in a stdout block of the transcript.        *)
C5_CapturedOutputReplayed ==
  \A t \in Tasks :
    (wpc[t] = "returned" /\ Printed(t)) =>
      \E i \in DOMAIN output_buffer :
        output_buffer[i].kind = "stdout" /\ t \in Range(output_buffer[i].txt)

(* C6: loading shutdown: once process_async t has cleared is_loading in its *)
(* finally block, the next tick of its animation loop ends the loop.        *)
C6_AnimationStopsWithinOneTick ==
  [][\A t \in Tasks :
       (ppc[t] = "await_anim" /\ animation_counter'[t] # animation_counter[t])
         => apc'[t] = "done"]_vars

(* C7: exactly one animation loop per in-flight command: a command in       *)
(* flight has its animation loop alive, and while the indicator is active   *)
(* for at most one command in flight at most one animation loop is alive.   *)
C7_OneAnimationPerCommand ==
  /\ \A t \in Tasks : InFlight(t) => AnimationLive(t)
  /\ (is_loading /\ Cardinality({t \in Tasks : InFlight(t)}) <= 1)
       => Cardinality({t \in Tasks : AnimationLive(t)}) <= 1

C9_SelectionInBounds ==
  FilteredCommands(text) # <<>> =>
    (0 <= slash_menu_index /\ slash_menu_index < Len(FilteredCommands(text)))

(* C10: an edit of the input text under the open Slash overlay resets       *)
(* slash_menu_index to 0.                                                   *)
C10_EditResetsSelection ==
  [][(show_slash_menu /\ show_slash_menu' /\ text' # text)
       => slash_menu_index' = 0]_vars

----------------------------------------------------------------------------
(* Vocabulary of the history and overlay properties.                       *)

\* self._history_index as the up handler reads it (lines 272-273): an unset
\* attribute counts as len(history)
HistoryIndex == IF history_index = NoIndex THEN Len(history) ELSE history_index

\* Input mode with no overlay
PlainInput == focus = "input" /\ ~show_slash_menu /\ ~show_help_menu

\* an overlay is visible
OverlayOpen == show_help_menu \/ show_slash_menu

C13_OverlayNavigationFrame ==
  [][((KeyUp \/ KeyDown) /\ focus = "input" /\ OverlayOpen) =>
       /\ text' = text
       /\ history' = history
       /\ history_index' = history_index
       /\ (show_slash_menu /\ FilteredCommands(text) # <<>> /\ KeyUp)
            => slash_menu_index' = Max(0, slash_menu_index - 1)
       /\ (show_slash_menu /\ FilteredCommands(text) # <<>> /\ KeyDown)
            => slash_menu_index' =
                 Min(Len(FilteredCommands(text)) - 1, slash_menu_index + 1)]_vars

(* C14: typing '/' inserts '/' into the input text and leaves the Slash     *)
(* overlay open, the Help overlay closed and slash_menu_index = 0, whatever *)
(* the overlay state before; when the resulting text is exactly '/', the    *)
(* overlay items are the full primary command list in registered order.     *)
C14_SlashForcedTransition ==
  [][KeySlash =>
       /\ text' = InsertAt(text, cursor, "/")
       /\ show_slash_menu'
       /\ ~show_help_menu'
       /\ slash_menu_index' = 0
       /\ (text' = <<"/">> => FilteredCommands(text') = all_commands)]_vars

\* '/' was typed under the Slash overlay that an earlier '/' had opened: the
\* overlay is still open, on its first item
C14_Witness ==
  /\ text = <<"/", "/">>
  /\ show_slash_menu
  /\ ~show_help_menu
  /\ slash_menu_index = 0

\* Backspace deletes a character of the token after the last '/'
ShortensToken == RFind(text, "/") >= 1 /\ cursor > RFind(text, "/")

C17_EscapeClosesSlashOverlay ==
  [][(KeyEscape /\ show_slash_menu) =>
       /\ ~show_slash_menu'
       /\ UNCHANGED <<text, cursor, focus, show_help_menu, history,
                      history_index>>]_vars

(* C18: Scroll mode never mutates the input text: a key event handled while *)
(* the output buffer has the focus leaves the input text as it was and      *)
(* submits no command.                                                      *)
C18_ScrollModeKeepsText ==
  [][(focus = "output" /\ keys' # keys) =>
       /\ text' = text
       /\ history' = history
       /\ nsub' = nsub]_vars

(* C19: return to Input: in Scroll mode every printable character moves    *)
(* the focus back to the input.                                             *)
C19_PrintableReturnsToInput ==
  [][(focus = "output" /\ \E c \in Chars : KeyChar(c)) => focus' = "input"]_vars

\* the candidate list the rule gives for a text
RuleCandidates(t) ==
  IF IsPrimary(t) THEN all_commands ELSE ParamsFor(Lower(Split(t)[1]))

(* C20: candidate-set rule: the items of _get_filtered_commands come from   *)
(* the primary command list if the text holds no '/' or exactly one '/' at  *)
(* position 0, and otherwise from the parameter list of the first           *)
(* whitespace-delimited token (format and output for an unknown token); an  *)
(* empty partial token gives the whole list.                                *)
C20_CandidateSetRule ==
  /\ Range(FilteredCommands(text)) \subseteq Range(RuleCandidates(text))
  /\ (text # <<>> /\ text[Len(text)] = "/")
       => FilteredCommands(text) = RuleCandidates(text)

----------------------------------------------------------------------------
(* The list _get_filtered_commands filters: the commands in its first      *)
(* branch, the parameters of the first token in its second.                *)
Candidates(buffer_text) ==
  LET parts == Split(buffer_text) IN
  IF Len(parts) <= 1 \/ Count(buffer_text, "/") = 0
    THEN all_commands
    ELSE ParamsFor(Lower(parts[1]))

\* the partial token: what follows the last '/' of the text
PartialToken(t) == SubSeq(t, RFind(t, "/") + 1, Len(t))

(* C21: overlay filtering: while the slash overlay is open over a text     *)
(* holding a '/', the items of _get_filtered_commands are exactly the       *)
(* candidates whose lower-cased name contains the lower-cased partial token *)
(* (what follows the last '/'), in registered order; an empty partial token *)
(* gives every candidate.                                                   *)
C21_OverlayFiltering ==
  (show_slash_menu /\ Count(text, "/") > 0)
    => FilteredCommands(text) =
         IF PartialToken(text) = <<>>
           THEN Candidates(text)
           ELSE FilterBy(Candidates(text), Lower(PartialToken(text)))

\* the text Tab leaves when it completes with `selected`
Completed(t, selected) ==
  IF IsPrimary(t)
    THEN selected \o <<" ">>
    ELSE SubSeq(t, 1, RFind(t, "/") - 1) \o <<"/">> \o selected \o <<" ">>

(* C22: Tab completion: Tab with the slash overlay open over a non-empty    *)
(* filtered list replaces the token being typed (the whole line in the      *)
(* primary case, what starts at the last '/' in the parameter case) with    *)
(* the selected candidate and one space, puts the cursor at the end and     *)
(* closes the overlay.                                                      *)
C22_TabCompletes ==
  [][(KeyTab /\ show_slash_menu /\ FilteredCommands(text) # <<>>)
       => /\ slash_menu_index < Len(FilteredCommands(text))
          /\ text' = Completed(text, FilteredCommands(text)[slash_menu_index + 1])
          /\ cursor' = Len(text')
          /\ ~show_slash_menu']_vars

C24_EmptySubmitIsNoOp ==
  [][(KeyEnter /\ Strip(text) = <<>>)
       => UNCHANGED <<output_buffer, history, history_index, nsub, cmd, taskVars,
                      loadVars>>]_vars

\* Enter was pressed on a whitespace-only line
C24_Witness ==
  /\ text = L_blank
  /\ keys = 2
  /\ app_running
  /\ history = <<>>

(* C25: submit clears the input and the overlays: after every Enter the     *)
(* input text is '', both overlays are closed and slash_menu_index is 0.     *)
C25_SubmitClearsInput ==
  [][KeyEnter => /\ text' = <<>>
                 /\ ~show_slash_menu'
                 /\ ~show_help_menu'
                 /\ slash_menu_index' = 0]_vars

(* C25, as the code has it: after every Enter both overlays are closed and  *)
(* slash_menu_index is 0; the input text is '' unless it was whitespace     *)
(* only, in which case it is left as it was.                                *)
C25_SubmitClearsCommand ==
  [][KeyEnter => /\ text' = (IF Strip(text) = <<>> THEN text ELSE <<>>)
                 /\ ~show_slash_menu'
                 /\ ~show_help_menu'
                 /\ slash_menu_index' = 0]_vars

\* a line was submitted in a session of three keys: it is in the history, the
\* input is empty and the overlays are closed
C25_Witness ==
  /\ keys = 3
  /\ app_running
  /\ history = <<L_unknown>>
  /\ text = <<>>
  /\ ~show_help_menu
  /\ ~show_slash_menu
  /\ nsub = 1

\* the leftmost occurrence of a key in a line of arguments: of the matches of
\* the patterns, the one for that key that starts first (the quoted reading of
\* an occurrence that is matched both ways)
FirstOccurrence(line, key) ==
  LET matches == patterns(line)
      i == CHOOSE i \in 1..Len(matches) :
             /\ matches[i].param = key
             /\ \A j \in 1..Len(matches) :
                  matches[j].param = key
                    => \/ matches[i].pos < matches[j].pos
                       \/ (matches[i].pos = matches[j].pos /\ i <= j)
  IN matches[i]

(* C26: first occurrence wins: parse_slash_command gives every key the      *)
(* value of its leftmost occurrence in the line, quoted or unquoted.        *)
C26_FirstOccurrenceWins ==
  LET args == ArgsOf(text)
      params == parse_slash_command(args) IN
  \A k \in 1..Len(params) :
    params[k].value = FirstOccurrence(args, params[k].param).value

\* an invocation rendered as a line: the name, then a token /key "value" for
\* each item of params
RECURSIVE RenderParams(_)
RenderParams(params) ==
  IF params = <<>> THEN <<>>
  ELSE <<" ", "/">> \o Head(params).param \o <<" ", "\"">> \o Head(params).value
       \o <<"\"">> \o RenderParams(Tail(params))
Render(invocation) == invocation.name \o RenderParams(invocation.params)

\* invocations whose values hold no quote character
Invocations ==
  {[name |-> W_vessel, params |-> <<>>],
   [name |-> W_search, params |-> <<>>],
   [name |-> W_fleet,
    params |-> <<[param |-> W_company, value |-> <<"a", " ", "/", "b", " ", "c">>]>>]}

(* C27: parse/render round trip: a submitted line that renders an            *)
(* invocation whose values hold no quote character parses back (first       *)
(* token as the name, parse_slash_command on the rest) to that name and      *)
(* those params, no key added, lost or altered.                              *)
C27_RoundTrip ==
  \A invocation \in Invocations :
    text = Render(invocation)
      => /\ CommandOf(text) = invocation.name
         /\ Range(parse_slash_command(ArgsOf(text))) = Range(invocation.params)

\* task t dispatched a line whose first token names no command
UnknownCommand(t) == cmd[t] # <<>> /\ CommandOf(cmd[t]) \notin command_map

(* C28: unknown command: the dispatch of a line whose command name is not  *)
(* in the command table appends a message naming the token and then a hint *)
(* to run 'help', and does nothing else: no handler runs (no output is      *)
(* captured, nothing raises), and output_format, logged_in, the client and  *)
(* last_operation are unchanged.                                            *)
C28_UnknownCommandOnlyReports ==
  [][\A t \in Tasks :
       (WorkerStart(t) /\ UnknownCommand(t))
         => /\ output_buffer' = output_buffer
                 \o <<Block("unknown", t, CommandOf(cmd[t])), Block("hint", t, <<>>)>>
            /\ wpc'[t] = "returned"
            /\ UNCHANGED <<output_format, logged_in, client, last_operation, loadVars,
                           sys_stdout, captured, raised>>]_vars

\* the dispatch of the unknown command x has reported it
C28_Witness ==
  \E t \in Tasks :
    /\ UnknownCommand(t)
    /\ wpc[t] = "returned"
    /\ \E k \in 1..Len(output_buffer) : output_buffer[k] = Block("unknown", t, L_unknown)

\* the line is a parse error of its handler: vessel without /imo, search
\* with neither /name nor /imo, format with an argument that is no format
ParseError(line) ==
  LET command == CommandOf(line)
      args    == ArgsOf(line) IN
  \/ command = W_vessel /\ W_imo \notin ParamKeys(args)
  \/ command = W_search /\ W_name \notin ParamKeys(args) /\ W_imo \notin ParamKeys(args)
  \/ command = W_format /\ ~ValidFormat(args)

(* C29: parse errors cause no state change: the dispatch of 'vessel'       *)
(* without /imo, of 'search' with neither /name nor /imo, or of 'format'    *)
(* with an argument outside table, json, csv appends one message of its     *)
(* handler to the transcript and returns: no authentication is attempted,   *)
(* the data client is not called, and output_format, logged_in, the client  *)
(* and last_operation keep their values.                                    *)
C29_ParseErrorOnlyReports ==
  [][\A t \in Tasks :
       (WorkerStart(t) /\ cmd[t] # <<>> /\ ParseError(cmd[t]))
         => /\ \E kind \in {"usage", "invalid"} :
                 output_buffer' = Append(output_buffer, Block(kind, t, <<>>))
            /\ wpc'[t] = "returned"
            /\ ~raised'[t]
            /\ UNCHANGED <<output_format, logged_in, client, last_operation,
                           loadVars>>]_vars

\* the dispatch of 'vessel' without /imo has reported the missing parameter
C29_Witness ==
  \E t \in Tasks :
    /\ cmd[t] = W_vessel
    /\ wpc[t] = "returned"
    /\ output_buffer[Len(output_buffer)] = Block("usage", t, <<>>)

(* C30: quit does not hang: once the application loop has stopped (exit,    *)
(* quit or Ctrl+D) while a command is in flight on the worker, the process  *)
(* can terminate without waiting for the worker's blocking call to return.  *)
C30_QuitDoesNotWait ==
  (~app_running /\ ~exited /\ \E t \in Tasks : Executing(t)) => ENABLED ProcessExit

(* C31: Ctrl+C clears the input line only: it sets the input text to empty  *)
(* and cancels nothing: the tasks in flight (their coroutines and worker),  *)
(* the loading state, the transcript, the history and the focus are left    *)
(* as they were.                                                            *)
C31_CtrlCClearsInputOnly ==
  [][KeyCtrlC => /\ text' = <<>>
                 /\ UNCHANGED <<taskVars, loadVars, output_buffer, history, history_index,
                                focus, app_running>>]_vars

\* a command is in flight on the worker, the indicator is shown, and the
\* third key of the session left the input empty and the overlays closed
C31_Witness ==
  /\ keys = 3
  /\ app_running
  /\ text = <<>>
  /\ ~show_help_menu
  /\ is_loading
  /\ \E t \in Tasks : Executing(t)

(* C37: at most one overlay is visible: in every state reached by key       *)
(* events show_help_menu and show_slash_menu are never both true.           *)
C37_AtMostOneOverlay == ~(show_help_menu /\ show_slash_menu)

\* '?' was pressed over the open slash overlay: the help overlay is shown
\* in its place
C37_Witness ==
  /\ keys = 2
  /\ text = <<"/">>
  /\ show_help_menu
  /\ ~show_slash_menu

(* C39: filtering and Tab completion agree on the case: with the slash      *)
(* overlay open, _get_filtered_commands filters the primary command list    *)
(* exactly when the Tab handler and the menu renderer take the text as      *)
(* primary (no '/', or one '/' at position 0).                              *)
C39_FilterAndTabAgree ==
  show_slash_menu => ((Candidates(text) = all_commands) <=> IsPrimary(text))

(* C38: output capture is always undone: whenever no dispatch is in         *)
(* progress, sys.stdout and sys.stderr are the streams of the process, not  *)
(* a capture buffer installed by _process_command.                          *)
C38_CaptureUndone ==
  (\A t \in Tasks : wpc[t] \in {"none", "returned"}) => sys_stdout = 0

\* sequence a is a prefix of sequence b
IsPrefix(a, b) == Len(a) <= Len(b) /\ SubSeq(b, 1, Len(a)) = a

(* C32: the transcript is append-only: every step other than the submit of  *)
(* 'clear' leaves the transcript it found as a prefix of the transcript it  *)
(* leaves (nothing is edited, reordered or dropped), and the submit of      *)
(* 'clear' leaves it empty.                                                 *)
C32_TranscriptAppendOnly ==
  [][IF KeyEnter /\ Strip(text) = W_clear
       THEN output_buffer' = <<>>
       ELSE IsPrefix(output_buffer, output_buffer')]_vars

(* C40: no append is lost: the echo of every submitted command is in the    *)
(* transcript, and so is the message of every dispatch that has run its     *)
(* _append_output, however the appends of the worker thread and of the      *)
(* event loop interleave; and the buffer is read-only whenever no thread    *)
(* is inside _append_output.                                                *)
C40_NoAppendLost ==
  /\ \A t \in 1..nsub : Block("echo", t, cmd[t]) \in Range(output_buffer)
  /\ \A t \in Tasks :
       (wpc[t] \in {"written", "returned"} /\ UnknownCommand(t))
         => Block("unknown", t, CommandOf(cmd[t])) \in Range(output_buffer)
  /\ (\A t \in Tasks : pending[t] = <<>>) => read_only

\* C33: get_credentials returns the pair of the first of command line,
\* environment, configuration file that supplies both values, never a pair
\* mixing two sources or with one value only, and (None, None) when no
\* source supplies both.
Supplies(source) == Truthy(source.username) /\ Truthy(source.password)

SourcesOf(call) ==
  <<Pair(call.username_arg, call.password_arg), environ, load_from_config>>

Success(outcome) == Checked(outcome).raises = None
RetryableFailure(outcome) == Checked(outcome).raises \in retryable_exceptions

RetryBound ==
  /\ Len(calls) <= max_retries + 1
  /\ \A i \in 1..Len(calls) :
        /\ Success(calls[i])
             => i = Len(calls) /\ retry_pc = "returned" /\ retry_out = calls[i]
        /\ ~Success(calls[i]) /\ ~RetryableFailure(calls[i])
             => i = Len(calls) /\ retry_pc = "raised" /\ retry_out = calls[i]
        /\ RetryableFailure(calls[i]) /\ i = max_retries + 1
             => retry_pc = "raised" /\ retry_out = Checked(calls[i])
        /\ RetryableFailure(calls[i]) /\ i = Len(calls) /\ i < max_retries + 1
             => retry_pc \in {"sleep", "try"}

C34_RetryBound ==
  /\ []RetryBound
  /\ (retry_pc = "try") ~> (retry_pc \in {"returned", "raised"})

\* four retryable failures in a row: the last one is raised
C34_Witness ==
  /\ Len(calls) = max_retries + 1
  /\ \A i \in 1..Len(calls) : RetryableFailure(calls[i])
  /\ calls[1] # calls[Len(calls)]
  /\ retry_pc = "raised"
  /\ retry_out = Checked(calls[Len(calls)])

\* C35: a request that fails with an HTTP status outside
\* retryable_status_codes is not tried again: its error is raised at once.
C35_OtherStatusNotRetried ==
  \A i \in 1..Len(calls) :
     (calls[i].raises = "HTTPError" /\ calls[i].status_code \notin retryable_status_codes)
       => i = Len(calls) /\ retry_pc = "raised" /\ retry_out = calls[i]

\* C36: every item is reported "processing" and then exactly one of
\* "success", "not_found", "error", the items are taken in input order, and
\* the list returned holds one result for every item that was started, in
\* input order, the item whose error stopped the batch included.
Started == Cardinality({k \in 1..Len(progress) : progress[k].status = "processing"})

====
